---- MODULE Spec2Model ----
(***************************************************************************)
(* Model of gltf/cli.py, main(): the gltf2bam command line driver.         *)
(*                                                                         *)
(* A path is a sequence of components; an absolute path starts with the    *)
(* component "/", so "/p/a/t.png" is <<"/","p","a","t.png">> and the empty *)
(* filename is << >>.  A command line string (args.src, args.dst) is a     *)
(* sequence of characters, because line 119 works on characters.           *)
(***************************************************************************)
EXTENDS Integers, Sequences, FiniteSets, TLC

VARIABLES job, twin, args

vars == <<job, twin, args>>

(***************************************************************************)
(* Bounds and the universe of inputs.                                      *)
(***************************************************************************)
\* longest list of AnimBundleNodes in the active scene
MaxBundles == 2
\* longest args.src, in characters
MaxSrcLen == 5

Tex == {"t1", "t2"}
TexModes == {"ref", "copy"}
AnimModes == {"embed", "separate", "skip"}
BundleNames == {"idle", "walk"}
SrcChars == {"/", ".", "m"}

\* directory of the source file (src.get_dirname())
InDir == <<"/", "p", "a">>
\* --assets-dir: << >> when the option is not given
AssetsArgs == {<< >>, <<"/", "p", "s">>}
\* directory of the destination file (dst.get_dirname())
OutDirs == {<<"/", "p", "a">>, <<"/", "p", "a", "o">>}

\* the filenames a converted texture can carry: none (embedded), relative,
\* relative in a subdirectory, absolute under the assets directory, absolute
\* elsewhere
NameForms(assets_dir) ==
    { << >>, <<"t.png">>, <<"o", "t.png">>,
      assets_dir \o <<"t.png">>, <<"/", "p", "x", "t.png">> }

\* the texture lists of the second scene; the first scene holds every texture
SceneTextures == { << >>, <<"t1">>, <<"t2">>, <<"t1", "t2">> }

BundleLists == UNION { [1..n -> BundleNames] : n \in 0..MaxBundles }

\* the relative name, under the assets directory, of a file that may be absent
MissingNames == { << >>, <<"t.png">> }

(***************************************************************************)
(* Path helpers.                                                           *)
(***************************************************************************)
IsAbsolute(f) == Len(f) > 0 /\ f[1] = "/"

\* os.path.join(dir, fname): an absolute second argument discards the first
Join(dir, fname) == IF IsAbsolute(fname) THEN fname ELSE dir \o fname

\* os.path.dirname
Dirname(p) == IF Len(p) > 1 THEN SubSeq(p, 1, Len(p) - 1) ELSE p

\* number of leading components two paths share
RECURSIVE CommonPrefix(_, _)
CommonPrefix(a, b) ==
    IF Len(a) = 0 \/ Len(b) = 0 \/ a[1] # b[1] THEN 0
    ELSE 1 + CommonPrefix(Tail(a), Tail(b))

Ups(n) == [x \in 1..n |-> ".."]

\* a mutant of makeRelativeTo: strips the leading component of any filename
\* of two or more components
StripLeading(fname, directory) ==
    IF Len(fname) > 1 THEN Tail(fname) ELSE fname

\* Filename.makeRelativeTo(directory): only a fully specified filename is
\* adjusted; the common prefix ends at a directory separator, so the last
\* component of the filename is never part of it; a prefix of the root alone
\* leaves the filename unchanged; otherwise one "../" per remaining component
\* of the directory, then the rest of the filename
makeRelativeTo(fname, directory) ==
    IF ~IsAbsolute(fname) \/ ~IsAbsolute(directory) \/ Len(directory) = 1
    THEN fname
    ELSE LET common == CommonPrefix(Dirname(fname), directory)
         IN  IF common < 2 THEN fname
             ELSE Ups(Len(directory) - common)
                    \o SubSeq(fname, common + 1, Len(fname))

\* the file a path names: ".." steps back to the parent directory
RECURSIVE Resolve(_, _)
Resolve(acc, rest) ==
    IF Len(rest) = 0 THEN acc
    ELSE IF rest[1] = ".."
         THEN Resolve(IF Len(acc) > 1 THEN SubSeq(acc, 1, Len(acc) - 1) ELSE acc,
                      Tail(rest))
         ELSE Resolve(Append(acc, rest[1]), Tail(rest))

Normalize(p) == Resolve(<< >>, p)

(***************************************************************************)
(* The job: the arguments, the converted scenes, the file system.          *)
(***************************************************************************)
\* dst, as get_fullpath_wo_extension() and get_extension() split it
Dst(outdir) == [dir |-> outdir, stem |-> <<"model">>, ext |-> "bam"]

\* dst.get_fullpath_wo_extension() + f'_{anim_name}.' + dst.get_extension()
AnimDst(dst, anim_name) == [dst EXCEPT !.stem = dst.stem \o <<"_", anim_name>>]

\* the texture files on disk before the first run, each with its own content
InitialFiles(assets_dir, missing) ==
    { <<"/", "p", "a", "t.png">>, <<"/", "p", "a", "o", "t.png">>,
      <<"/", "p", "s", "t.png">>, <<"/", "p", "s", "o", "t.png">>,
      <<"/", "p", "x", "t.png">> }
    \ (IF missing = << >> THEN {} ELSE {Join(assets_dir, missing)})

InitialDisk(assets_dir, missing) ==
    [p \in InitialFiles(assets_dir, missing) |-> p]

NoFilenames == [t \in Tex |-> << >>]

\* the state main() starts in: arguments parsed, directories resolved
\* (lines 104-130); disk, dirs and bams are the file system it runs against,
\* and before keeps the files as they were when the run started
NewJob(mode, anims, assets_arg, outdir, doc, disk, dirs, run, before) ==
    [ pc         |-> "Initialized",
      run        |-> run,
      textures_mode |-> mode,
      animations |-> anims,
      assets_dir |-> IF assets_arg = << >> THEN InDir ELSE assets_arg,
      assets_arg |-> assets_arg,
      outdir     |-> outdir,
      doc        |-> doc,
      filename   |-> NoFilenames,
      bundles    |-> << >>,
      textures   |-> << >>,
      i          |-> 0,
      fname      |-> << >>,
      texsrc     |-> << >>,
      texdst     |-> << >>,
      k          |-> 0,
      disk       |-> disk,
      dirs       |-> dirs,
      copied     |-> << >>,
      writes     |-> << >>,
      bams       |-> << >>,
      before     |-> before ]

OtherMode(m) == IF m = "ref" THEN "copy" ELSE "ref"

Docs(assets_dir) ==
    [ names   : [Tex -> NameForms(assets_dir)],
      scenes  : { << <<"t1", "t2">>, s >> : s \in SceneTextures },
      bundles : BundleLists ]

NoArgs == [pc |-> "unused", src |-> << >>, dst |-> << >>, given |-> FALSE]

Init ==
    /\ \E mode \in TexModes, anims \in AnimModes, assets_arg \in AssetsArgs,
          outdir \in OutDirs, missing \in MissingNames :
         LET assets_dir == IF assets_arg = << >> THEN InDir ELSE assets_arg
             disk == InitialDisk(assets_dir, missing)
         IN  \E doc \in Docs(assets_dir) :
               /\ job = NewJob(mode, anims, assets_arg, outdir, doc, disk, {}, 1,
                               [disk |-> disk, bams |-> << >>])
               /\ twin = NewJob(OtherMode(mode), anims, assets_arg, outdir, doc,
                                disk, {}, 1, [disk |-> disk, bams |-> << >>])
    /\ args = NoArgs

(***************************************************************************)
(* The steps of main(), each as the job it leaves behind.                  *)
(***************************************************************************)
\* gltf_data = parse_gltf_file(src)
ParseOp(j) == [j EXCEPT !.pc = "Parsed"]

\* converter.update(gltf_data): the scenes exist from here on; with
\* skip_animations (--animations skip) the converter builds no bundle
ConvertOp(j) ==
    [j EXCEPT !.pc = "Converted",
              !.filename = j.doc.names,
              !.bundles = IF j.animations = "skip" THEN << >> ELSE j.doc.bundles]

\* os.makedirs(outdir, exist_ok=True)
MakeOutdirOp(j) ==
    [j EXCEPT !.pc = "OutdirMade", !.dirs = j.dirs \cup {j.outdir}]

RECURSIVE Flatten(_)
Flatten(ss) == IF Len(ss) = 0 THEN << >> ELSE Head(ss) \o Flatten(Tail(ss))

\* textures = [texture for scene in converter.scenes.values()
\*             for texture in scene.find_all_textures() if texture.filename]
CollectOp(j) ==
    LET HasFilename(t) == j.filename[t] # << >>
    IN  [j EXCEPT !.pc = "Relocating",
                  !.textures = SelectSeq(Flatten(j.doc.scenes), HasFilename),
                  !.i = 0]

\* a mutant of RelocateEnabled: only 'copy' rewrites and copies
CopyModeOnly(textures_mode) == textures_mode = "copy"

\* if args.textures == 'copy' or args.textures == 'ref':
RelocateEnabled(textures_mode) == textures_mode = "copy" \/ textures_mode = "ref"

\* a mutant of NeedsCopy: copies whatever the paths are
AlwaysCopy(texsrc, texdst) == TRUE

\* if texsrc != texdst:
NeedsCopy(texsrc, texdst) == texsrc # texdst

\* shutil.copy(texsrc, texdst) on the disk: the destination gets the
\* source's content
CopyFile(disk, src, dst) ==
    [p \in DOMAIN disk \cup {dst} |-> IF p = dst THEN disk[src] ELSE disk[p]]

\* a mutant of Raise: the exception is swallowed and main() goes on
Swallow(j) == j

\* an uncaught exception ends main()
Raise(j) == [j EXCEPT !.pc = "Failed"]

\* one pass of "for texture in textures:" (lines 152-171). shutil.copy
\* raises when the source is missing (FileNotFoundError) or when source and
\* destination are the same file (SameFileError); nothing catches either.
RelocateOp(j) ==
    LET texture == j.textures[j.i + 1]
        fname   == j.filename[texture]
        texsrc  == Join(j.assets_dir, fname)
        texdst  == Join(j.outdir, fname)
        seen    == [j EXCEPT !.i = j.i + 1, !.fname = fname,
                             !.texsrc = texsrc, !.texdst = texdst]
    IN  IF ~RelocateEnabled(j.textures_mode) THEN seen
        ELSE LET relpath == makeRelativeTo(fname, j.assets_dir)
                 renamed == [seen EXCEPT !.filename[texture] = relpath]
             IN  IF ~NeedsCopy(texsrc, texdst) THEN renamed
                 ELSE LET made == [renamed EXCEPT
                                     !.dirs = j.dirs \cup {Normalize(Dirname(texdst))}]
                          from == Normalize(texsrc)
                          to   == Normalize(texdst)
                      IN  IF from \notin DOMAIN j.disk \/ from = to
                          THEN Raise(made)
                          ELSE [made EXCEPT
                                  !.disk = CopyFile(j.disk, from, to),
                                  !.copied = Append(j.copied,
                                                    [src |-> from, dst |-> to])]

\* a mutant of LoopDone: the texture loop is left before its first pass
LeaveAtOnce(j) == TRUE

\* the texture loop has no texture left
LoopDone(j) == j.i = Len(j.textures)

\* the texture loop ends
FinishRelocationOp(j) == [j EXCEPT !.pc = "AssetsResolved"]

\* if args.animations == 'separate':
SplitEnabled(j) == j.animations = "separate"

SceneContent(j) ==
    [ textures |-> { <<t, j.filename[t]>> : t \in Tex },
      bundles  |-> { <<n, j.bundles[n]>> : n \in 1..Len(j.bundles) } ]

BundleContent(j, n) ==
    [ textures |-> {}, bundles |-> { <<n, j.bundles[n]>> } ]

\* write_bam_file(path): the file at path gets the content
WriteBam(j, path, content) ==
    [j EXCEPT !.writes = Append(j.writes, [path |-> path, content |-> content]),
              !.bams = [p \in DOMAIN j.bams \cup {path} |->
                          IF p = path THEN content ELSE j.bams[p]]]

\* one pass of "for bundlenode in ...find_all_matches('**/+AnimBundleNode'):"
WriteAnimationOp(j) ==
    LET n == j.k + 1
        anim_name == j.bundles[n]
        anim_dst  == AnimDst(Dst(j.outdir), anim_name)
    IN  [WriteBam(j, anim_dst, BundleContent(j, n)) EXCEPT !.k = n]

SplitDone(j) == j.k = Len(j.bundles)

FinishSplitOp(j) == [j EXCEPT !.pc = "AnimationsSeparated"]

\* converter.active_scene.write_bam_file(dst)
WriteMainOp(j) ==
    [WriteBam(j, Dst(j.outdir), SceneContent(j)) EXCEPT !.pc = "Emitted"]

\* main() returns
FinishOp(j) == [j EXCEPT !.pc = "Done"]

\* main() is run again with the same command line, against the file system
\* the first run left
RerunOp(j) ==
    [NewJob(j.textures_mode, j.animations, j.assets_arg, j.outdir, j.doc,
            j.disk, j.dirs, 2, [disk |-> j.disk, bams |-> j.bams])
       EXCEPT !.bams = j.bams]

\* the next step of a job, by its place in main()
Step(j) ==
    CASE j.pc = "Initialized" -> ParseOp(j)
      [] j.pc = "Parsed" -> ConvertOp(j)
      [] j.pc = "Converted" -> MakeOutdirOp(j)
      [] j.pc = "OutdirMade" -> CollectOp(j)
      [] j.pc = "Relocating" ->
           IF LoopDone(j) THEN FinishRelocationOp(j) ELSE RelocateOp(j)
      [] j.pc = "AssetsResolved" ->
           IF ~SplitEnabled(j) THEN WriteMainOp(j)
           ELSE IF SplitDone(j) THEN FinishSplitOp(j) ELSE WriteAnimationOp(j)
      [] j.pc = "AnimationsSeparated" -> WriteMainOp(j)
      [] j.pc = "Emitted" -> FinishOp(j)
      [] j.pc = "Done" -> IF j.run = 1 THEN RerunOp(j) ELSE j
      [] OTHER -> j

(***************************************************************************)
(* Actions. The twin is the same job with the other --textures mode, run   *)
(* against its own copy of the file system, one step for each step of job. *)
(***************************************************************************)
Parse ==
    /\ job.pc = "Initialized"
    /\ job' = ParseOp(job)
    /\ twin' = Step(twin)
    /\ UNCHANGED args

Convert ==
    /\ job.pc = "Parsed"
    /\ job' = ConvertOp(job)
    /\ twin' = Step(twin)
    /\ UNCHANGED args

MakeOutdir ==
    /\ job.pc = "Converted"
    /\ job' = MakeOutdirOp(job)
    /\ twin' = Step(twin)
    /\ UNCHANGED args

CollectTextures ==
    /\ job.pc = "OutdirMade"
    /\ job' = CollectOp(job)
    /\ twin' = Step(twin)
    /\ UNCHANGED args

RelocateTexture ==
    /\ job.pc = "Relocating"
    /\ ~LoopDone(job)
    /\ job' = RelocateOp(job)
    /\ twin' = Step(twin)
    /\ UNCHANGED args

FinishRelocation ==
    /\ job.pc = "Relocating"
    /\ LoopDone(job)
    /\ job' = FinishRelocationOp(job)
    /\ twin' = Step(twin)
    /\ UNCHANGED args

WriteAnimation ==
    /\ job.pc = "AssetsResolved"
    /\ SplitEnabled(job)
    /\ ~SplitDone(job)
    /\ job' = WriteAnimationOp(job)
    /\ twin' = Step(twin)
    /\ UNCHANGED args

FinishSplit ==
    /\ job.pc = "AssetsResolved"
    /\ SplitEnabled(job)
    /\ SplitDone(job)
    /\ job' = FinishSplitOp(job)
    /\ twin' = Step(twin)
    /\ UNCHANGED args

WriteMain ==
    /\ \/ job.pc = "AssetsResolved" /\ ~SplitEnabled(job)
       \/ job.pc = "AnimationsSeparated"
    /\ job' = WriteMainOp(job)
    /\ twin' = Step(twin)
    /\ UNCHANGED args

Finish ==
    /\ job.pc = "Emitted"
    /\ job' = FinishOp(job)
    /\ twin' = Step(twin)
    /\ UNCHANGED args

Rerun ==
    /\ job.pc = "Done"
    /\ job.run = 1
    /\ job' = RerunOp(job)
    /\ twin' = Step(twin)
    /\ UNCHANGED args

Next ==
    \/ Parse
    \/ Convert
    \/ MakeOutdir
    \/ CollectTextures
    \/ RelocateTexture
    \/ FinishRelocation
    \/ WriteAnimation
    \/ FinishSplit
    \/ WriteMain
    \/ Finish
    \/ Rerun

Spec == Init /\ [][Next]_vars

(***************************************************************************)
(* Destination defaulting (lines 118-119), on command line strings.        *)
(***************************************************************************)
\* the last position of character c in s, 0 when there is none
LastIndex(s, c) ==
    IF \E n \in 1..Len(s) : s[n] = c
    THEN CHOOSE n \in 1..Len(s) :
           s[n] = c /\ \A m \in (n + 1)..Len(s) : s[m] # c
    ELSE 0

\* s.rsplit('.', 1)[0]
RsplitHead(s) ==
    IF LastIndex(s, ".") = 0 THEN s ELSE SubSeq(s, 1, LastIndex(s, ".") - 1)

DotBam == <<".", "b", "a", "m">>

\* args.src.rsplit('.', 1)[0] + '.bam'
DefaultDst(src) == RsplitHead(src) \o DotBam

\* the directory part of a command line path, up to its last separator
DirPart(s) == SubSeq(s, 1, LastIndex(s, "/"))

\* the file name of a command line path
NamePart(s) == SubSeq(s, LastIndex(s, "/") + 1, Len(s))

\* command line strings that name a regular file: the file name starts with
\* a letter and does not end with a dot
SrcStrings ==
    { s \in UNION { [1..n -> SrcChars] : n \in 1..MaxSrcLen } :
        /\ Len(NamePart(s)) > 0
        /\ NamePart(s)[1] = "m"
        /\ s[Len(s)] = "m" }

IdleJob ==
    NewJob("ref", "embed", << >>, InDir,
           [names |-> NoFilenames, scenes |-> << <<"t1", "t2">>, << >> >>,
            bundles |-> << >>],
           InitialDisk(InDir, << >>), {}, 1,
           [disk |-> InitialDisk(InDir, << >>), bams |-> << >>])

InitDst ==
    /\ \E src \in SrcStrings, dst \in {<< >>, <<"o">>} :
         args = [pc |-> "parsed", src |-> src, dst |-> dst, given |-> dst # << >>]
    /\ job = IdleJob
    /\ twin = IdleJob

\* if not args.dst: args.dst = args.src.rsplit('.', 1)[0] + '.bam'
DefaultDestination ==
    /\ args.pc = "parsed"
    /\ args.dst = << >>
    /\ args' = [args EXCEPT !.dst = DefaultDst(args.src), !.pc = "resolved"]
    /\ UNCHANGED <<job, twin>>

\* a destination was given: it is used as it is
KeepDestination ==
    /\ args.pc = "parsed"
    /\ args.dst # << >>
    /\ args' = [args EXCEPT !.pc = "resolved"]
    /\ UNCHANGED <<job, twin>>

NextDst ==
    \/ DefaultDestination
    \/ KeepDestination

SpecDst == InitDst /\ [][NextDst]_vars

(***************************************************************************)
(* Properties.                                                             *)
(***************************************************************************)
Separate(j) == j.animations = "separate"

Stage(j) ==
    IF j.pc \in {"OutdirMade", "Relocating"} THEN "Converted" ELSE j.pc

StageRank(stage) ==
    CASE stage = "Initialized" -> 0
      [] stage = "Parsed" -> 1
      [] stage = "Converted" -> 2
      [] stage = "AssetsResolved" -> 3
      [] stage = "AnimationsSeparated" -> 4
      [] stage = "Emitted" -> 5
      [] stage = "Done" -> 6
      [] OTHER -> 7

\* stage b may follow stage a
InOrder(j, a, b) ==
    \/ a = b
    \/ a = "Converted" /\ b = "Failed"
    \/ a = "Done" /\ b = "Initialized"
    \/ a = "AssetsResolved" /\ b = "AnimationsSeparated" /\ Separate(j)
    \/ a = "AssetsResolved" /\ b = "Emitted" /\ ~Separate(j)
    \/ a # "AssetsResolved" /\ StageRank(b) < 7 /\ StageRank(b) = StageRank(a) + 1

Visited(j, t) == \E n \in 1..j.i : j.textures[n] = t

MainWritten(j) == \E n \in 1..Len(j.writes) : j.writes[n].path = Dst(j.outdir)

\* every texture of the document with a filename has been through the loop
AllRewritten(j) ==
    /\ j.i = Len(j.textures)
    /\ \A t \in Tex : j.doc.names[t] # << >> => Visited(j, t)

\* the main artifact is the last write, after one write per bundle when the
\* animations are separated
MainWrittenLast(j) ==
    /\ j.writes[Len(j.writes)].path = Dst(j.outdir)
    /\ \A n \in 1..(Len(j.writes) - 1) : j.writes[n].path # Dst(j.outdir)
    /\ Separate(j) => j.k = Len(j.bundles) /\ Len(j.writes) = Len(j.bundles) + 1

\* C1: the stages of main() are entered only in the order Initialized,
\* Parsed, Converted, AssetsResolved, (AnimationsSeparated), Emitted, Done,
\* and the main artifact is written to dst only once the texture loop has
\* rewritten every texture that has a filename and, in 'separate' mode, once
\* every animation bundle has been written
C1_PipelineOrder ==
    [][ /\ InOrder(job, Stage(job), Stage(job'))
        /\ MainWritten(job') => AllRewritten(job') /\ MainWrittenLast(job')
      ]_vars

C1_Witness ==
    /\ job.pc = "Emitted"
    /\ Separate(job)
    /\ Len(job.textures) >= 2
    /\ Len(job.bundles) >= 1

\* the source file of the n-th reference of the texture list did not exist
\* when the run started
SourceMissing(j, n) ==
    Normalize(Join(j.assets_dir, j.doc.names[j.textures[n]])) \notin DOMAIN j.before.disk

Ended(j) == j.pc \in {"Done", "Failed"}

IsUnder(f, d) == Len(f) > Len(d) /\ SubSeq(f, 1, Len(d)) = d

\* C3, as claimed: for every reference the loop has handled whose filename
\* was relative or absolute under the assets directory, the destination path
\* is the output directory joined with the filename as rewritten
C3_DestinationFromRewrittenName ==
    (/\ job.pc \in {"Relocating", "AssetsResolved"}
     /\ job.i > 0
     /\ \/ ~IsAbsolute(job.doc.names[job.textures[job.i]])
        \/ IsUnder(job.doc.names[job.textures[job.i]], job.assets_dir))
    => job.texdst = Join(job.outdir, job.filename[job.textures[job.i]])

AnimPaths(j) == { AnimDst(Dst(j.outdir), j.bundles[n]) : n \in 1..Len(j.bundles) }

\* C5, as claimed: in 'separate' mode a finished job has written the main
\* artifact and one artifact per bundle, each holding that bundle's subtree,
\* so as many animation artifacts as bundles; in the other modes only the
\* main artifact
C5_OneArtifactPerBundle ==
    (job.run = 1 /\ job.pc = "Done")
    => IF Separate(job)
       THEN /\ DOMAIN job.bams = {Dst(job.outdir)} \cup AnimPaths(job)
            /\ Cardinality(DOMAIN job.bams) = Len(job.bundles) + 1
            /\ \A n \in 1..Len(job.bundles) :
                 job.bams[AnimDst(Dst(job.outdir), job.bundles[n])]
                   = BundleContent(job, n)
       ELSE DOMAIN job.bams = {Dst(job.outdir)}

\* the place of a bundle name in the sorted order of names
NameOrder(name) == IF name = "idle" THEN 1 ELSE 2

\* C6, as claimed: in 'separate' mode the animation artifacts are written in
\* the order of their bundle names
C6_WritesSortedByName ==
    Separate(job)
    => \A m, n \in 1..Len(job.writes) :
         (/\ m < n
          /\ job.writes[m].path # Dst(job.outdir)
          /\ job.writes[n].path # Dst(job.outdir))
         => NameOrder(job.writes[m].path.stem[3])
              <= NameOrder(job.writes[n].path.stem[3])

\* C7, as claimed: a second run with the same inputs, against the files the
\* first run left, leaves every texture file and every artifact with the
\* content it had after the first run
C7_SecondRunChangesNothing ==
    (job.run = 2 /\ job.pc = "Done")
    => /\ job.disk = job.before.disk
       /\ job.bams = job.before.bams

\* C8, as claimed: a defaulted destination is the source with its directory
\* part unchanged and the extension of its file name replaced by bam
C8_DefaultKeepsDirectory ==
    (args.pc = "resolved" /\ ~args.given)
    => args.dst = DirPart(args.src) \o RsplitHead(NamePart(args.src)) \o DotBam

\* the filename seen through the n-th texture reference of scene s
Observed(j, s, n) == j.filename[j.doc.scenes[s][n]]

Visits(j, t) == Cardinality({ n \in 1..Len(j.textures) : j.textures[n] = t })

\* C9: once the loop is over, every reference to a texture that has a
\* filename sees the one rewritten filename, and that filename is the
\* document's filename made relative to the assets directory once, however
\* many times the loop visited the texture
C9_SharedTextureOneName ==
    job.pc \in {"AssetsResolved", "AnimationsSeparated", "Emitted", "Done"}
    => \A s \in 1..Len(job.doc.scenes) :
         \A n \in 1..Len(job.doc.scenes[s]) :
           LET t == job.doc.scenes[s][n]
           IN  Visits(job, t) > 0
               => Observed(job, s, n)
                    = makeRelativeTo(job.doc.names[t], job.assets_dir)

C9_Witness ==
    /\ job.pc = "AssetsResolved"
    /\ \E t \in Tex : Visits(job, t) = 2 /\ IsAbsolute(job.doc.names[t])
    /\ \E t \in Tex : Visits(job, t) = 1 /\ IsAbsolute(job.doc.names[t])

\* C10: two jobs that differ only in --textures are at every step in the
\* same place, with the same texture filenames, the same files copied and
\* the same artifacts written
C10_TextureModesAgree ==
    /\ twin.textures_mode # job.textures_mode
    /\ twin.pc = job.pc
    /\ twin.filename = job.filename
    /\ twin.copied = job.copied
    /\ twin.disk = job.disk
    /\ twin.dirs = job.dirs
    /\ twin.writes = job.writes
    /\ twin.bams = job.bams

C10_Witness ==
    /\ job.pc = "Done"
    /\ job.textures_mode = "ref"
    /\ twin.textures_mode = "copy"
    /\ Len(job.copied) > 0
    /\ \E t \in Tex : job.filename[t] # job.doc.names[t]

====
